---- MODULE Spec2Model ----
(***************************************************************************)
(* Model of Session2/wiki_crawler.py: the category page parser get_pages,  *)
(* the article extractor extract_text_from_wikipedia, the orchestrator     *)
(* crawl_wiki_category and the command-line entry point main.              *)
(*                                                                         *)
(* Strings are sequences of one-character strings (a path also uses the    *)
(* tokens ".txt" and ".pdf").  An HTML document is the pre-order sequence  *)
(* of its elements; each element carries its tag, its class, the index of  *)
(* its parent (0 for the document root) and the text that directly         *)
(* follows its start tag.                                                  *)
(***************************************************************************)
EXTENDS Integers, Sequences, FiniteSets, TLC

VARIABLES
  soup,       \* the parsed category page
  wikies,     \* what get_pages returned
  html,       \* the parsed html_content of the article being extracted
  extracted,  \* (title, text) of the article being written
  pc,         \* the position of the run
  pdf,        \* the --pdf flag
  idx,        \* the position in wikies of the article being processed
  dirs,       \* the directories that exist
  files,      \* the files that exist, with their content
  files0,     \* the files that existed when the run started
  dirs0,      \* the directories that existed when the run started
  resp,       \* what the network answered to each article request so far
  writes,     \* the file writes of the run so far
  exc,        \* the exception that ended crawl_wiki_category, if any
  exitcode,   \* what main returned
  stdout      \* the lines printed to standard output

vars == <<soup, wikies, html, extracted, pc, pdf, idx, dirs, files, files0, dirs0,
          resp, writes, exc, exitcode, stdout>>

\* Bounds of the model.
MaxItems == 3
MaxNodes == 3
MaxCrawlItems == 3

----------------------------------------------------------------------------
\* Strings

RECURSIVE Flatten(_)
Flatten(ss) == IF ss = <<>> THEN <<>> ELSE Head(ss) \o Flatten(Tail(ss))

\* The hexadecimal digits int(x, 16) accepts, with their values.
HexVal ==
  [c \in {"0", "1", "2", "3", "4", "5", "6", "7", "8", "9",
          "A", "B", "C", "D", "E", "F", "a", "b", "c", "d", "e", "f"} |->
     CASE c = "0" -> 0 [] c = "1" -> 1 [] c = "2" -> 2 [] c = "3" -> 3
       [] c = "4" -> 4 [] c = "5" -> 5 [] c = "6" -> 6 [] c = "7" -> 7
       [] c = "8" -> 8 [] c = "9" -> 9
       [] c \in {"A", "a"} -> 10 [] c \in {"B", "b"} -> 11
       [] c \in {"C", "c"} -> 12 [] c \in {"D", "d"} -> 13
       [] c \in {"E", "e"} -> 14 [] c \in {"F", "f"} -> 15]

\* The character of a code point, for the code points the modelled links
\* encode (the table is partial: no other code point is modelled).
Chr == (37 :> "%") @@ (47 :> "/") @@ (65 :> "A") @@ (66 :> "B")

\* requests.utils.unquote (urllib.parse.unquote): every "%" followed by two
\* hexadecimal digits is replaced by the character they encode, in one
\* left-to-right pass; any other "%" is kept.
RECURSIVE unquote(_)
unquote(s) ==
  IF s = <<>> THEN <<>>
  ELSE IF /\ s[1] = "%"
          /\ Len(s) >= 3
          /\ s[2] \in DOMAIN HexVal
          /\ s[3] \in DOMAIN HexVal
       THEN <<Chr[16 * HexVal[s[2]] + HexVal[s[3]]]>> \o unquote(SubSeq(s, 4, Len(s)))
       ELSE <<s[1]>> \o unquote(Tail(s))

\* str.split("/")[-1]: what follows the last "/" (the whole string if none).
RECURSIVE LastSegment(_)
LastSegment(s) ==
  IF s = <<>> THEN <<>>
  ELSE IF s[Len(s)] = "/" THEN <<>>
  ELSE LastSegment(SubSeq(s, 1, Len(s) - 1)) \o <<s[Len(s)]>>

\* The characters str.strip() removes.
Whitespace == {" ", "\n", "\t", "\r"}

RECURSIVE LStrip(_)
LStrip(s) == IF s # <<>> /\ s[1] \in Whitespace THEN LStrip(Tail(s)) ELSE s

RECURSIVE RStrip(_)
RStrip(s) ==
  IF s # <<>> /\ s[Len(s)] \in Whitespace THEN RStrip(SubSeq(s, 1, Len(s) - 1)) ELSE s

\* str.strip()
Strip(s) == RStrip(LStrip(s))

----------------------------------------------------------------------------
\* Results of a call: a value, or an exception that propagates.

NoExc == "none"
Returned(v) == [raised |-> NoExc, value |-> v]
Raised(e) == [raised |-> e, value |-> <<>>]

----------------------------------------------------------------------------
\* get_pages

\* A list item of the listing: its first anchor's href, or no anchor at all.
Li(h) == [anchor |-> TRUE, href |-> h]
LiNoAnchor == [anchor |-> FALSE, href |-> <<>>]

\* A parsed category page: whether it has the div with id "mw-pages", and
\* the list items inside it in document order.
Page(c, its) == [parsed |-> TRUE, container |-> c, items |-> its]

\* The variable soup before any page is parsed.
NoSoup == [parsed |-> FALSE, container |-> FALSE, items |-> <<>>]

\* The loop of get_pages over the items from position i on, with the pages
\* collected so far and the raw links already used.
RECURSIVE GetPagesLoop(_, _, _, _)
GetPagesLoop(items, i, pages, pages_used) ==
  IF i > Len(items) THEN Returned(pages)
  ELSE IF ~items[i].anchor THEN Raised("TypeError")
  ELSE LET wiki == items[i].href IN
       IF wiki \notin pages_used
       THEN GetPagesLoop(items, i + 1, Append(pages, unquote(wiki)), pages_used \cup {wiki})
       ELSE GetPagesLoop(items, i + 1, pages, pages_used)

\* get_pages, were it to take a page without the container as an empty
\* listing.
GetPagesLenient(s) ==
  IF ~s.container THEN Returned(<<>>)
  ELSE GetPagesLoop(s.items, 1, <<>>, {})

\* get_pages, were it to append every link it meets.
GetPagesNoDedup(s) ==
  IF ~s.container THEN Raised("AttributeError")
  ELSE IF \E i \in 1..Len(s.items) : ~s.items[i].anchor THEN Raised("TypeError")
  ELSE Returned([i \in 1..Len(s.items) |-> unquote(s.items[i].href)])

get_pages(s) ==
  IF ~s.container THEN Raised("AttributeError")
  ELSE GetPagesLoop(s.items, 1, <<>>, {})

----------------------------------------------------------------------------
\* extract_text_from_wikipedia

Node(t, c, par, txt) == [tag |-> t, cls |-> c, parent |-> par, text |-> txt]

\* Whether element i lies in the subtree rooted at element r.
RECURSIVE InSubtree(_, _, _)
InSubtree(doc, i, r) ==
  IF i = r THEN TRUE
  ELSE IF i = 0 THEN FALSE
  ELSE InSubtree(doc, doc[i].parent, r)

\* The elements of a set in document order.
InOrder(doc, S) == SelectSeq([i \in 1..Len(doc) |-> i], LAMBDA i : i \in S)

\* soup.find_all(...): the elements still in the tree that match, in
\* document order.
FindAllTags(doc, alive, tags) == InOrder(doc, {i \in alive : doc[i].tag \in tags})
FindAllClass(doc, alive, class_name) == InOrder(doc, {i \in alive : doc[i].cls = class_name})

\* element.decompose() for each element of a list: the element and all its
\* descendants leave the tree.
RECURSIVE DecomposeAll(_, _, _)
DecomposeAll(doc, alive, elements) ==
  IF elements = <<>> THEN alive
  ELSE DecomposeAll(doc, {i \in alive : ~InSubtree(doc, i, Head(elements))}, Tail(elements))

\* element.get_text(): the strings of the element's subtree that are still
\* in the tree, in document order.
get_text(doc, alive, r) ==
  LET sub == InOrder(doc, {i \in alive : InSubtree(doc, i, r)})
  IN Flatten([k \in 1..Len(sub) |-> doc[sub[k]].text])

\* The tags removed by the first loop and the classes removed by the second.
StripTags == {"nav", "script", "style", "footer"}
StripClasses == <<"navbox">>

RECURSIVE DecomposeClasses(_, _, _)
DecomposeClasses(doc, alive, classes) ==
  IF classes = <<>> THEN alive
  ELSE DecomposeClasses(doc,
                        DecomposeAll(doc, alive, FindAllClass(doc, alive, Head(classes))),
                        Tail(classes))

\* The tree after the first removal loop alone.
StrippedTagsOnly(doc) ==
  LET all == 1..Len(doc)
  IN DecomposeAll(doc, all, FindAllTags(doc, all, StripTags))

\* The tree after both removal loops.
Stripped(doc) ==
  LET all == 1..Len(doc)
      afterTags == DecomposeAll(doc, all, FindAllTags(doc, all, StripTags))
  IN DecomposeClasses(doc, afterTags, StripClasses)

\* The text accumulated over the paragraphs, before the final strip.
ParagraphText(doc, alive) ==
  LET ps == FindAllTags(doc, alive, {"p"})
  IN Flatten([k \in 1..Len(ps) |-> get_text(doc, alive, ps[k]) \o <<"\n", "\n">>])

\* The part of extract_text_from_wikipedia after the fetch: the parsed
\* html_content in, (title, text) out; soup.find('title') of a tree without
\* a title is None, and None.get_text() raises AttributeError.
extract_text(doc) ==
  LET alive == Stripped(doc)
      text == ParagraphText(doc, alive)
      titles == FindAllTags(doc, alive, {"title"})
  IN IF titles = <<>> THEN Raised("AttributeError")
     ELSE Returned([title |-> get_text(doc, alive, titles[1]), text |-> Strip(text)])

----------------------------------------------------------------------------
\* The file system

output_path == <<"out">>
PdfDir == output_path \o <<"/", "PDF">>

\* f"{output_path}/{title}.txt" and f"{output_path}/PDF/{title}.pdf"
TxtPath(title) == output_path \o <<"/">> \o title \o <<".txt">>
PdfPath(title) == PdfDir \o <<"/">> \o title \o <<".pdf">>

\* The directory a path names a file in: the path up to its last "/".
RECURSIVE ParentDir(_)
ParentDir(path) ==
  IF path = <<>> THEN <<>>
  ELSE IF path[Len(path)] = "/" THEN SubSeq(path, 1, Len(path) - 1)
  ELSE ParentDir(SubSeq(path, 1, Len(path) - 1))

\* A write, were the file opened with "a": the content follows what the
\* file held.
WriteAppending(fs, path, content) ==
  [q \in DOMAIN fs \cup {path} |->
     IF q = path THEN (IF path \in DOMAIN fs THEN fs[path] ELSE <<>>) \o content ELSE fs[q]]

\* open(path, "w") and f.write(content): the file holds content and nothing
\* else, whatever it held.
WriteFile(fs, path, content) ==
  [q \in DOMAIN fs \cup {path} |-> IF q = path THEN content ELSE fs[q]]

NoFiles == [q \in {} |-> <<>>]

\* The states of the output directory a run starts in: nothing there, or
\* the directories and files of an earlier run.
StartFileSystems ==
  { [dirs |-> {}, files |-> NoFiles],
    [dirs |-> {output_path, PdfDir},
     files |-> WriteFile(WriteFile(NoFiles, TxtPath(<<"T">>), <<"o", "l", "d">>),
                         PdfPath(<<"A">>), <<"o", "l", "d">>)] }

----------------------------------------------------------------------------
\* The network

\* What a request can be answered with: no response at all (rq.get raises a
\* RequestException), or a response with a status code and a body.
NoResponse(u) == [url |-> u, arrived |-> FALSE, status |-> 0, body |-> <<>>]
Response(u, st, b) == [url |-> u, arrived |-> TRUE, status |-> st, body |-> b]

\* A status check that lets every status through.
RaisesForStatusNever(st) == FALSE

\* response.raise_for_status() raises for a 4xx or 5xx status.
RaisesForStatus(st) == st >= 400 /\ st < 600

\* The raw links of the modelled listings.
Hrefs == { <<"/", "A">>, <<"/", "%", "4", "1">>, <<"/", "B">>, <<"/", "A", "/", "B">>,
           <<"/", "A", "%", "2", "F", "B">>, <<"/", "%", "2", "5", "4", "1">> }
CrawlHrefs == { <<"/", "A">>, <<"/", "%", "4", "1">>, <<"/", "B">>, <<"/", "A", "/", "B">> }

RECURSIVE SeqsUpTo(_, _)
SeqsUpTo(S, n) ==
  IF n = 0 THEN {<<>>}
  ELSE LET shorter == SeqsUpTo(S, n - 1)
       IN shorter \cup {Append(q, x) : q \in shorter, x \in S}

\* The category pages get_pages is applied to.
Pages ==
  {Page(FALSE, <<>>)}
    \cup {Page(TRUE, its) : its \in SeqsUpTo({Li(h) : h \in Hrefs} \cup {LiNoAnchor}, MaxItems)}

\* The category pages the network serves to a run.
CrawlPages ==
  {Page(FALSE, <<>>)}
    \cup {Page(TRUE, its) :
            its \in SeqsUpTo({Li(h) : h \in CrawlHrefs} \cup {LiNoAnchor}, MaxCrawlItems)}

\* The article pages the network serves to a run.
ArticleDocs ==
  { <<Node("title", "", 0, <<"T">>), Node("p", "", 0, <<"A">>)>>,
    <<Node("title", "", 0, <<"T">>), Node("p", "", 0, <<"B">>)>>,
    <<Node("title", "", 0, <<"U">>), Node("p", "", 0, <<"A">>)>>,
    <<Node("title", "", 0, <<"T", "/", "U">>), Node("p", "", 0, <<"A">>)>>,
    <<Node("p", "", 0, <<"A">>)>> }

\* The bodies the PDF endpoint answers with, by status.
PdfAnswers == { [status |-> 200, body |-> <<"P">>], [status |-> 200, body |-> <<"Q">>],
                [status |-> 404, body |-> <<"E">>] }

\* base_url + wiki and base_url + '/api/rest_v1/page/pdf/' + title
ArticleUrl(wiki) == <<"base_url">> \o wiki
PdfUrl(title) == <<"base_url", "/api/rest_v1/page/pdf/">> \o title

----------------------------------------------------------------------------
\* crawl_wiki_category

NoArticle == [title |-> <<>>, text |-> <<>>]

\* An exception leaves crawl_wiki_category.
Raise(e) == pc' = "Raised" /\ exc' = e

\* os.makedirs(output_path, exist_ok=True)
EnsureOutputDir ==
  /\ pc = "Init"
  /\ dirs' = dirs \cup {output_path}
  /\ pc' = "DirReady"
  /\ UNCHANGED <<soup, wikies, html, extracted, pdf, idx, files, files0, dirs0,
                 resp, writes, exc, exitcode, stdout>>

\* _download_html(category_url + category), BeautifulSoup(html) and
\* get_pages(soup): the request fails, or whatever page arrives is parsed (no
\* status check) and get_pages returns the listing or raises.
DownloadListing ==
  /\ pc = "DirReady"
  /\ \/ /\ Raise("ConnectionError")
        /\ UNCHANGED <<soup, wikies>>
     \/ \E page \in CrawlPages :
          /\ soup' = page
          /\ LET r == get_pages(page)
             IN IF r.raised # NoExc
                THEN Raise(r.raised) /\ UNCHANGED wikies
                ELSE wikies' = r.value /\ pc' = "ListingFetched" /\ UNCHANGED exc
  /\ UNCHANGED <<html, extracted, pdf, idx, dirs, files, files0, dirs0,
                 resp, writes, exitcode, stdout>>

\* The position after the article at position i, were the loop to stop one
\* article early.
AfterArticleOffByOne(i) == IF i + 1 < Len(wikies) THEN "Fetching" ELSE "Done"

\* The position after the article at position i: the next article, or the
\* end of the loop and of crawl_wiki_category.
AfterArticle(i) == IF i < Len(wikies) THEN "Fetching" ELSE "Done"

\* if not pdf: the loop starts; else: os.makedirs(output_path + '/PDF/',
\* exist_ok=True) and the loop starts.
StartLoop ==
  /\ pc = "ListingFetched"
  /\ dirs' = IF pdf THEN dirs \cup {PdfDir} ELSE dirs
  /\ idx' = IF wikies = <<>> THEN 0 ELSE 1
  /\ pc' = AfterArticle(0)
  /\ UNCHANGED <<soup, wikies, html, extracted, pdf, files, files0, dirs0,
                 resp, writes, exc, exitcode, stdout>>

\* extract_text_from_wikipedia(url=url), the fetch: rq.get(url) and
\* response.raise_for_status(); a RequestException is raised again as
\* Exception("Error fetching URL: ...").
FetchArticle ==
  /\ pc = "Fetching" /\ ~pdf
  /\ LET url == ArticleUrl(wikies[idx])
     IN \/ /\ resp' = Append(resp, NoResponse(url))
           /\ Raise("Exception")
           /\ UNCHANGED html
        \/ \E st \in {200, 404}, doc \in ArticleDocs :
             /\ resp' = Append(resp, Response(url, st, doc))
             /\ IF RaisesForStatus(st)
                THEN Raise("Exception") /\ UNCHANGED html
                ELSE html' = doc /\ pc' = "Extracting" /\ UNCHANGED exc
  /\ UNCHANGED <<soup, wikies, extracted, pdf, idx, dirs, files, files0, dirs0,
                 writes, exitcode, stdout>>

\* extract_text_from_wikipedia, the extraction of the fetched html_content.
ExtractArticle ==
  /\ pc = "Extracting"
  /\ LET r == extract_text(html)
     IN IF r.raised # NoExc
        THEN Raise(r.raised) /\ UNCHANGED extracted
        ELSE extracted' = r.value /\ pc' = "Writing" /\ UNCHANGED exc
  /\ UNCHANGED <<soup, wikies, html, pdf, idx, dirs, files, files0, dirs0,
                 resp, writes, exitcode, stdout>>

\* with open(path, "w") as f: f.write(content), then the next iteration;
\* open raises FileNotFoundError when the file's directory does not exist.
WriteAndContinue(path, content) ==
  IF ParentDir(path) \in dirs
  THEN /\ files' = WriteFile(files, path, content)
       /\ writes' = Append(writes, [path |-> path, content |-> content])
       /\ idx' = IF idx < Len(wikies) THEN idx + 1 ELSE idx
       /\ pc' = AfterArticle(idx)
       /\ UNCHANGED exc
  ELSE /\ Raise("FileNotFoundError")
       /\ UNCHANGED <<files, writes, idx>>

\* with open(f"{output_path}/{title}.txt", "w") as f: f.write(text)
WriteArticle ==
  /\ pc = "Writing" /\ ~pdf
  /\ WriteAndContinue(TxtPath(extracted.title), extracted.text)
  /\ UNCHANGED <<soup, wikies, html, extracted, pdf, dirs, files0, dirs0,
                 resp, exitcode, stdout>>

\* The PDF request, were it followed by response.raise_for_status().
FetchPdfChecked ==
  /\ pc = "Fetching" /\ pdf
  /\ LET title == LastSegment(wikies[idx])
         url == PdfUrl(title)
     IN \/ /\ resp' = Append(resp, NoResponse(url))
           /\ Raise("ConnectionError")
           /\ UNCHANGED extracted
        \/ \E a \in PdfAnswers :
             /\ resp' = Append(resp, Response(url, a.status, a.body))
             /\ IF RaisesForStatus(a.status)
                THEN Raise("HTTPError") /\ UNCHANGED extracted
                ELSE /\ extracted' = [title |-> title, text |-> a.body]
                     /\ pc' = "Writing"
                     /\ UNCHANGED exc
  /\ UNCHANGED <<soup, wikies, html, pdf, idx, dirs, files, files0, dirs0,
                 writes, exitcode, stdout>>

\* title = wiki.split("/")[-1] and rq.get(url, headers=...): the request
\* fails, or the response arrives; its status is not looked at.
FetchPdf ==
  /\ pc = "Fetching" /\ pdf
  /\ LET title == LastSegment(wikies[idx])
         url == PdfUrl(title)
     IN \/ /\ resp' = Append(resp, NoResponse(url))
           /\ Raise("ConnectionError")
           /\ UNCHANGED extracted
        \/ \E a \in PdfAnswers :
             /\ resp' = Append(resp, Response(url, a.status, a.body))
             /\ extracted' = [title |-> title, text |-> a.body]
             /\ pc' = "Writing"
             /\ UNCHANGED exc
  /\ UNCHANGED <<soup, wikies, html, pdf, idx, dirs, files, files0, dirs0,
                 writes, exitcode, stdout>>

\* with open(f'{output_path}/PDF/{title}.pdf', 'wb') as f:
\* f.write(response.content)
WritePdf ==
  /\ pc = "Writing" /\ pdf
  /\ WriteAndContinue(PdfPath(extracted.title), extracted.text)
  /\ UNCHANGED <<soup, wikies, html, extracted, pdf, dirs, files0, dirs0,
                 resp, exitcode, stdout>>

----------------------------------------------------------------------------
\* main

\* The classes of the exceptions that leave crawl_wiki_category; all of them
\* derive from Exception.
ExceptionClasses == {"Exception", "ConnectionError", "HTTPError", "AttributeError",
                     "TypeError", "FileNotFoundError"}

\* except rq.RequestException as e
CatchesRequestException(e) == e = "ConnectionError"

\* except Exception as e
Catches(e) == e \in ExceptionClasses

\* crawl_wiki_category returned: return 0
MainReturn ==
  /\ pc = "Done"
  /\ exitcode' = 0
  /\ pc' = "Exited"
  /\ UNCHANGED <<soup, wikies, html, extracted, pdf, idx, dirs, files, files0, dirs0,
                 resp, writes, exc, stdout>>

\* crawl_wiki_category raised: print(f"Error: {e}") and return 1 when the
\* except clause catches the exception, which otherwise leaves main.
MainExcept ==
  /\ pc = "Raised"
  /\ IF Catches(exc)
     THEN /\ stdout' = Append(stdout, <<"Error: ", exc>>)
          /\ exitcode' = 1
          /\ pc' = "Exited"
     ELSE /\ pc' = "Escaped"
          /\ UNCHANGED <<stdout, exitcode>>
  /\ UNCHANGED <<soup, wikies, html, extracted, pdf, idx, dirs, files, files0, dirs0,
                 resp, writes, exc>>

----------------------------------------------------------------------------
\* A run of main

NoExitCode == -1

Init ==
  /\ soup = NoSoup
  /\ wikies = <<>>
  /\ html = <<>>
  /\ extracted = NoArticle
  /\ pc = "Init"
  /\ pdf \in BOOLEAN
  /\ idx = 0
  /\ \E fs \in StartFileSystems :
       /\ dirs = fs.dirs /\ dirs0 = fs.dirs
       /\ files = fs.files /\ files0 = fs.files
  /\ resp = <<>>
  /\ writes = <<>>
  /\ exc = NoExc
  /\ exitcode = NoExitCode
  /\ stdout = <<>>

Next ==
  \/ EnsureOutputDir
  \/ DownloadListing
  \/ StartLoop
  \/ FetchArticle
  \/ ExtractArticle
  \/ WriteArticle
  \/ FetchPdf
  \/ WritePdf
  \/ MainReturn
  \/ MainExcept

Spec == Init /\ [][Next]_vars

----------------------------------------------------------------------------
\* get_pages applied to every modelled category page

IdleRun ==
  /\ pdf = FALSE /\ idx = 0
  /\ dirs = {} /\ dirs0 = {} /\ files = NoFiles /\ files0 = NoFiles
  /\ resp = <<>> /\ writes = <<>>
  /\ exitcode = NoExitCode /\ stdout = <<>>

InitPages ==
  /\ soup \in Pages
  /\ wikies = <<>>
  /\ html = <<>>
  /\ extracted = NoArticle
  /\ pc = "get_pages"
  /\ exc = NoExc
  /\ IdleRun

ApplyGetPages ==
  /\ pc = "get_pages"
  /\ LET r == get_pages(soup)
     IN wikies' = r.value /\ exc' = r.raised
  /\ pc' = "returned"
  /\ UNCHANGED <<soup, html, extracted, pdf, idx, dirs, files, files0, dirs0,
                 resp, writes, exitcode, stdout>>

NextPages == ApplyGetPages

SpecPages == InitPages /\ [][NextPages]_vars

----------------------------------------------------------------------------
\* extract_text_from_wikipedia applied to every modelled document

\* The elements the modelled documents are built from.
Shapes ==
  { [tag |-> "title", cls |-> "", text |-> <<"T">>],
    [tag |-> "p", cls |-> "", text |-> <<"A">>],
    [tag |-> "p", cls |-> "", text |-> <<"B">>],
    [tag |-> "p", cls |-> "", text |-> <<" ">>],
    [tag |-> "div", cls |-> "", text |-> <<"D">>],
    [tag |-> "div", cls |-> "navbox", text |-> <<"X">>],
    [tag |-> "nav", cls |-> "", text |-> <<"N">>],
    [tag |-> "script", cls |-> "", text |-> <<"x">>] }

\* The elements whose content the parser does not read as elements, or that
\* are taken to hold text only.
LeafTags == {"title", "script", "style"}

\* Where the next element of a pre-order sequence can hang: under the root,
\* or under the last element or one of its ancestors.
RECURSIVE OpenElements(_, _)
OpenElements(doc, i) ==
  IF i = 0 THEN {0}
  ELSE (IF doc[i].tag \in LeafTags THEN {} ELSE {i}) \cup OpenElements(doc, doc[i].parent)

RECURSIVE DocsUpTo(_)
DocsUpTo(n) ==
  IF n = 0 THEN {<<>>}
  ELSE LET shorter == DocsUpTo(n - 1)
       IN shorter \cup
          { Append(d, Node(sh.tag, sh.cls, par, sh.text)) :
              <<d, sh, par>> \in { t \in shorter \X Shapes \X (0..(n - 1)) :
                                     /\ Len(t[1]) = n - 1
                                     /\ t[3] \in OpenElements(t[1], Len(t[1])) } }

Docs == DocsUpTo(MaxNodes)

InitExtract ==
  /\ soup = NoSoup
  /\ wikies = <<>>
  /\ html \in Docs
  /\ extracted = NoArticle
  /\ pc = "extract"
  /\ exc = NoExc
  /\ IdleRun

ApplyExtract ==
  /\ pc = "extract"
  /\ LET r == extract_text(html)
     IN /\ extracted' = IF r.raised = NoExc THEN r.value ELSE NoArticle
        /\ exc' = r.raised
  /\ pc' = "returned"
  /\ UNCHANGED <<soup, wikies, html, pdf, idx, dirs, files, files0, dirs0,
                 resp, writes, exitcode, stdout>>

NextExtract == ApplyExtract

SpecExtract == InitExtract /\ [][NextExtract]_vars

----------------------------------------------------------------------------
\* Properties of get_pages (checked under SpecPages)

AllAnchors(items) == \A i \in 1..Len(items) : items[i].anchor

\* The positions of the items whose raw link occurs at no earlier position.
FirstSeen(items) ==
  SelectSeq([i \in 1..Len(items) |-> i],
            LAMBDA i : \A j \in 1..(i - 1) : items[j].href # items[i].href)

RawLinks(items) == {items[i].href : i \in 1..Len(items)}

\* C1: for a listing whose items carry k distinct raw links, with any
\* repeats, get_pages returns exactly k entries, one per distinct raw link
\* (the link decoded), ordered by the first occurrence of each link.
C1_OnePerRawLinkInFirstSeenOrder ==
  (pc = "returned" /\ soup.container /\ AllAnchors(soup.items)) =>
    LET first == FirstSeen(soup.items)
    IN /\ exc = NoExc
       /\ Len(wikies) = Cardinality(RawLinks(soup.items))
       /\ Len(wikies) = Len(first)
       /\ \A n \in 1..Len(first) : wikies[n] = unquote(soup.items[first[n]].href)

\* A listing <<B, A, B>>: three items, two distinct links, A after B.
C1_Witness ==
  /\ pc = "returned"
  /\ soup.container /\ AllAnchors(soup.items)
  /\ Len(soup.items) = 3
  /\ soup.items[1].href = soup.items[3].href
  /\ soup.items[1].href # soup.items[2].href
  /\ wikies = <<unquote(soup.items[1].href), unquote(soup.items[2].href)>>

\* C2: no two entries of the sequence get_pages returns are equal, also when
\* two items carry raw links that differ only in their percent-encoding.
C2_EntriesUnique ==
  (pc = "returned" /\ exc = NoExc) =>
    \A i, j \in 1..Len(wikies) : i # j => wikies[i] # wikies[j]

----------------------------------------------------------------------------
\* Properties of a run (checked under Spec)

\* The files as the writes of the run leave them, from the files at start.
RECURSIVE Replay(_, _)
Replay(fs, ws) ==
  IF ws = <<>> THEN fs
  ELSE Replay([q \in DOMAIN fs \cup {Head(ws).path} |->
                 IF q = Head(ws).path THEN Head(ws).content ELSE fs[q]], Tail(ws))

\* C3: when the fetched category page has no listing container, the parser
\* fails and the run aborts before any article is fetched; no file and no
\* directory other than the output directory has been created or changed,
\* in text mode and in PDF mode.
C3_NoContainerNoFile ==
  (soup.parsed /\ ~soup.container) =>
    /\ pc \in {"Raised", "Exited"}
    /\ exc = "AttributeError"
    /\ resp = <<>>
    /\ writes = <<>>
    /\ files = files0
    /\ dirs = dirs0 \cup {output_path}

C3_Witness ==
  /\ soup.parsed /\ ~soup.container
  /\ pdf
  /\ pc = "Exited"
  /\ PdfDir \notin dirs

\* What the article at position k of the listing was answered with yields:
\* its title and its body.
TitleOf(k) == extract_text(resp[k].body).value.title
BodyOf(k) == extract_text(resp[k].body).value.text

\* A request of text mode that makes the article fail: no response, a
\* status outside 2xx, or a page without any title element.
FetchOrExtractionFails(r) ==
  \/ ~r.arrived
  \/ r.status \notin 200..299
  \/ \A i \in 1..Len(r.body) : r.body[i].tag # "title"

WrittenPaths == {writes[k].path : k \in 1..Len(writes)}

Completed == pc \in {"Done", "Exited"} /\ exc = NoExc

EntriesDistinct == \A i, j \in 1..Len(wikies) : i # j => wikies[i] # wikies[j]

\* C5 as stated: a text-mode run that completes has written as many .txt
\* files as the listing has entries, each named <title>.txt, and has made
\* no PDF subdirectory (stated here for the listings whose entries are
\* pairwise distinct).
C5_OneFilePerEntry ==
  (~pdf /\ Completed /\ EntriesDistinct) =>
    /\ Cardinality(WrittenPaths) = Len(wikies)
    /\ \A k \in 1..Len(wikies) : TxtPath(TitleOf(k)) \in WrittenPaths
    /\ PdfDir \in dirs => PdfDir \in dirs0

\* C5 as amended: a text-mode run that completes has made one write per
\* entry, the k-th to <title>.txt of the k-th article, so the .txt files it
\* has written are as many as the distinct titles of the entries; it has
\* made no directory but the output directory.
C5_OneWritePerEntry ==
  (~pdf /\ Completed) =>
    /\ Len(writes) = Len(wikies)
    /\ Len(resp) = Len(wikies)
    /\ \A k \in 1..Len(wikies) :
         /\ writes[k].path = TxtPath(TitleOf(k))
         /\ writes[k].path \in DOMAIN files
    /\ Cardinality(WrittenPaths) = Cardinality({TitleOf(k) : k \in 1..Len(wikies)})
    /\ Cardinality(WrittenPaths) <= Len(wikies)
    /\ dirs = dirs0 \cup {output_path}

\* Three distinct entries, two of them with one title: two files.
C5_Witness ==
  /\ ~pdf /\ Completed
  /\ Len(wikies) = 3
  /\ EntriesDistinct
  /\ Cardinality(WrittenPaths) = 2
  /\ PdfDir \notin dirs

\* seg is the final path segment of s.
IsFinalSegment(seg, s) ==
  /\ \A i \in 1..Len(seg) : seg[i] # "/"
  /\ Len(seg) <= Len(s)
  /\ SubSeq(s, Len(s) - Len(seg) + 1, Len(s)) = seg
  /\ Len(seg) < Len(s) => s[Len(s) - Len(seg)] = "/"

\* The last position up to n whose entry has the short name of entry k.
LastWithShortName(k, n) ==
  CHOOSE j \in k..n :
    /\ LastSegment(wikies[j]) = LastSegment(wikies[k])
    /\ \A m \in (j + 1)..n : LastSegment(wikies[m]) # LastSegment(wikies[k])

\* C6 as stated: in PDF mode every entry of the listing gets its file
\* <output_dir>/PDF/<short_name>.pdf with the bytes of the endpoint's
\* response, whatever the run met.
C6_EveryEntryWritten ==
  (pdf /\ pc = "Exited") =>
    \A k \in 1..Len(wikies) :
      /\ k <= Len(writes)
      /\ writes[k] = [path |-> PdfPath(LastSegment(wikies[k])), content |-> resp[k].body]

\* C6 as amended: in PDF mode every entry whose request is answered, with
\* any status, gets its file <output_dir>/PDF/<short_name>.pdf with exactly
\* the bytes of the response, the latest one for that short name; the run
\* goes on to the next entry, and only a request left without a response
\* ends it early.
C6_EveryAnswerWritten ==
  pdf =>
    /\ \A k \in 1..Len(resp) :
         /\ \E seg \in {LastSegment(wikies[k])} :
              /\ IsFinalSegment(seg, wikies[k])
              /\ resp[k].url = PdfUrl(seg)
         /\ (resp[k].arrived /\ ~(k = Len(resp) /\ pc = "Writing")) =>
              /\ k <= Len(writes)
              /\ writes[k] = [path |-> PdfPath(LastSegment(wikies[k])),
                              content |-> resp[k].body]
              /\ files[writes[k].path] = resp[LastWithShortName(k, Len(writes))].body
         /\ ~resp[k].arrived => (k = Len(resp) /\ exc # NoExc /\ Len(writes) = k - 1)
    /\ (exc # NoExc /\ resp # <<>>) => ~resp[Len(resp)].arrived
    /\ Completed => (Len(writes) = Len(wikies) /\ Len(resp) = Len(wikies))

\* An error page is written as the first PDF and the run writes the second.
C6_Witness ==
  /\ pdf /\ Completed
  /\ Len(wikies) >= 2
  /\ resp[1].status = 404
  /\ files[PdfPath(LastSegment(wikies[1]))] = resp[1].body
  /\ files[PdfPath(LastSegment(wikies[2]))] = resp[2].body
  /\ wikies[2] # LastSegment(wikies[2])

\* C7: main returns 0 exactly when crawl_wiki_category ran to completion
\* without raising, and returns 1 after printing the single line
\* "Error: <message>" when it raised, whatever the exception; no exception
\* of the orchestrator leaves main.
C7_ExitCode ==
  /\ pc # "Escaped"
  /\ pc = "Exited" =>
       /\ exitcode \in {0, 1}
       /\ exitcode = 0 <=> exc = NoExc
       /\ exc = NoExc => (stdout = <<>> /\ Len(writes) = Len(wikies) /\ soup.parsed)
       /\ exc # NoExc => stdout = << <<"Error: ", exc>> >>
  /\ pc # "Exited" => (exitcode = NoExitCode /\ stdout = <<>>)

\* A structure failure and an extraction failure both end in exit code 1.
C7_Witness ==
  /\ pc = "Exited"
  /\ exitcode = 1
  /\ exc = "AttributeError"
  /\ resp # <<>>
  /\ stdout = << <<"Error: ", "AttributeError">> >>

\* The steps of a run: Init -> ListingFetched -> (Fetching -> Extracting ->
\* Writing)* -> Done, the output directory being ensured on the way to
\* ListingFetched; PDF mode has no extraction and goes from Fetching to
\* Writing; each step but the last can fail instead.
RunSteps ==
  { <<"Init", "DirReady">>, <<"DirReady", "ListingFetched">>,
    <<"ListingFetched", "Fetching">>, <<"ListingFetched", "Done">>,
    <<"Fetching", IF pdf THEN "Writing" ELSE "Extracting">>,
    <<"Extracting", "Writing">>,
    <<"Writing", "Fetching">>, <<"Writing", "Done">>,
    <<"Done", "Exited">> }
FailureSteps ==
  { <<"DirReady", "Raised">>, <<"Fetching", "Raised">>, <<"Extracting", "Raised">>,
    <<"Writing", "Raised">>, <<"Raised", "Exited">> }

\* The request for the entry at position k of the listing.
RequestFor(k) ==
  IF pdf THEN PdfUrl(LastSegment(wikies[k])) ELSE ArticleUrl(wikies[k])

C9_Order ==
  /\ pc \in {"Fetching", "Extracting", "Writing", "Done"} =>
       (output_path \in dirs /\ soup.parsed /\ get_pages(soup) = Returned(wikies))
  /\ resp # <<>> => (output_path \in dirs /\ soup.parsed)
  /\ Len(resp) <= Len(wikies)
  /\ \A k \in 1..Len(resp) : resp[k].url = RequestFor(k)
  /\ Len(writes) <= Len(resp) /\ Len(resp) <= Len(writes) + 1
  /\ pc = "Fetching" => (Len(resp) = Len(writes) /\ idx = Len(writes) + 1)
  /\ pc \in {"Extracting", "Writing"} => (Len(resp) = Len(writes) + 1 /\ idx = Len(resp))
  /\ Completed => Len(writes) = Len(wikies)
  /\ files = Replay(files0, writes)

C9_Step ==
  /\ <<pc, pc'>> \in RunSteps \cup FailureSteps
  /\ <<pc, pc'>> = <<"Writing", "Fetching">> =>
       (Len(writes') = Len(writes) + 1 /\ resp' = resp /\ idx' = idx + 1)
  /\ pc' = "Writing" => Len(resp') = Len(writes') + 1
  /\ pc' = "Done" => Len(writes') = Len(wikies')
  /\ Len(resp') > Len(resp) => (pc = "Fetching" /\ Len(resp') = Len(writes) + 1)

\* C9: a run follows Init -> ListingFetched -> (Fetching -> Extracting ->
\* Writing)* -> Done (RunSteps; a step can fail instead): the output directory is ensured and the listing is
\* fetched and parsed before any article is requested, the articles are
\* requested one at a time in listing order, the file of the i-th is written
\* before the (i+1)-th is requested, and Done is reached only when every
\* listed article has been written.
C9_RunOrder == []C9_Order /\ [][C9_Step]_vars

\* The third article is being extracted after two were written.
C9_Witness ==
  /\ ~pdf
  /\ pc = "Extracting"
  /\ Len(writes) = 2
  /\ Len(resp) = 3
  /\ wikies[1] # wikies[3]

\* The last position whose article has the title of the article at k.
LastWithTitle(k) ==
  CHOOSE j \in k..Len(resp) :
    /\ TitleOf(j) = TitleOf(k)
    /\ \A m \in (j + 1)..Len(resp) : TitleOf(m) # TitleOf(k)

\* C10: in text mode each body is written to <output_dir>/<title>.txt in
\* place of what the file held: after a run that completes, the file of a
\* title holds exactly the body of the last entry, in listing order, with
\* that title, and every file the run did not write is as it was.
C10_LastBodyWins ==
  (~pdf /\ Completed) =>
    /\ \A k \in 1..Len(resp) :
         /\ TxtPath(TitleOf(k)) \in DOMAIN files
         /\ files[TxtPath(TitleOf(k))] = BodyOf(LastWithTitle(k))
    /\ \A q \in DOMAIN files :
         (\A k \in 1..Len(resp) : q # TxtPath(TitleOf(k))) =>
           (q \in DOMAIN files0 /\ files[q] = files0[q])

\* Two entries with one title and different bodies, over a file that was
\* there with other content.
C10_Witness ==
  /\ ~pdf /\ Completed
  /\ Len(resp) = 2
  /\ TitleOf(1) = TitleOf(2)
  /\ BodyOf(1) # BodyOf(2)
  /\ TxtPath(TitleOf(1)) \in DOMAIN files0
  /\ files[TxtPath(TitleOf(1))] = BodyOf(2)
  /\ files[TxtPath(TitleOf(1))] # files0[TxtPath(TitleOf(1))]

----------------------------------------------------------------------------
\* Properties of extract_text_from_wikipedia (checked under SpecExtract)

\* The element i and its ancestors.
RECURSIVE Chain(_, _)
Chain(doc, i) == IF i = 0 THEN {} ELSE {i} \cup Chain(doc, doc[i].parent)

\* The element i is a removed element or inside one.
InRemoved(doc, i) ==
  \E a \in Chain(doc, i) :
    doc[a].tag \in {"nav", "script", "style", "footer"} \/ doc[a].cls = "navbox"

\* The text of an element: that of its subtree outside the removed elements.
KeptText(doc, r) ==
  LET sub == SelectSeq([i \in 1..Len(doc) |-> i],
                       LAMBDA i : r \in Chain(doc, i) /\ ~InRemoved(doc, i))
  IN Flatten([k \in 1..Len(sub) |-> doc[sub[k]].text])

\* The paragraphs outside the removed elements, in document order, each
\* followed by a blank line.
KeptParagraphs(doc) ==
  LET ps == SelectSeq([i \in 1..Len(doc) |-> i],
                      LAMBDA i : doc[i].tag = "p" /\ ~InRemoved(doc, i))
  IN Flatten([k \in 1..Len(ps) |-> KeptText(doc, ps[k]) \o <<"\n", "\n">>])

\* t is s without its leading and trailing white space.
IsTrimmed(t, s) ==
  /\ t # <<>> => (t[1] \notin {" ", "\n", "\t", "\r"} /\ t[Len(t)] \notin {" ", "\n", "\t", "\r"})
  /\ \E a, b \in 0..Len(s) :
       /\ a + b <= Len(s)
       /\ t = SubSeq(s, a + 1, Len(s) - b)
       /\ \A i \in (1..a) \cup ((Len(s) - b + 1)..Len(s)) : s[i] \in {" ", "\n", "\t", "\r"}

BodyAsClaimed ==
  /\ exc = NoExc
  /\ IsTrimmed(extracted.text, KeptParagraphs(html))
  /\ (\A i \in 1..Len(html) : html[i].tag # "p" \/ InRemoved(html, i)) =>
       extracted.text = <<>>
  /\ html = <<Node("title", "", 0, <<"T">>), Node("p", "", 0, <<"A">>),
              Node("p", "", 0, <<"B">>)>> => extracted.text = <<"A", "\n", "\n", "B">>

\* C8 as stated: for every article with a title element the extraction
\* returns, as body, the texts of the paragraphs outside the removed
\* elements, in document order, each followed by a blank line, the whole
\* trimmed.
C8_BodyWheneverTitle ==
  (pc = "returned" /\ \E i \in 1..Len(html) : html[i].tag = "title") => BodyAsClaimed

\* C8 as amended: the same for every article with a title element that is
\* not inside a removed element (the title is looked up after the removal).
C8_BodyWheneverKeptTitle ==
  (pc = "returned" /\ \E i \in 1..Len(html) : html[i].tag = "title" /\ ~InRemoved(html, i))
    => BodyAsClaimed

\* A paragraph inside a navbox before a kept paragraph: only the second is
\* in the body.
C8_Witness ==
  /\ pc = "returned" /\ exc = NoExc
  /\ Len(html) = 3
  /\ html[1].cls = "navbox" /\ html[2].tag = "p" /\ html[2].parent = 1
  /\ html[3].tag = "title"
  /\ extracted.text = <<>>

====
